---- MODULE Spec2Model ----
(***************************************************************************)
(* bzt/modules/reporting.py: the two end-of-run reporters.                 *)
(*                                                                         *)
(*   FinalStatus       logs short statistics of the last aggregated        *)
(*                     DataPoint when the test ends.                       *)
(*   JUnitXMLReporter  builds a JUnit XML tree from the last DataPoint (or *)
(*                     from the pass/fail criteria) and writes it to a     *)
(*                     file.                                               *)
(*                                                                         *)
(* Representation.  Python None is the record NoneValue.  A label is a     *)
(* sequence of one-character strings (str is compared code point by code   *)
(* point, see LabelLess).  A dict is a function; where the code iterates a *)
(* dict without sorting it the model keeps the mapping itself, so that no  *)
(* iteration order is invented.  Log lines and XML elements are records of *)
(* the values the code formats into them.                                  *)
(***************************************************************************)
EXTENDS Integers, Sequences, FiniteSets, TLC

VARIABLES
    clock,              \* time.time(), in whole seconds
    fs_pc,              \* FinalStatus: "idle", "running", "done"
    fs_parameters,      \* FinalStatus.parameters
    fs_last_sec,        \* FinalStatus.last_sec
    fs_start_time,      \* FinalStatus.start_time
    fs_end_time,        \* FinalStatus.end_time
    fs_log,             \* what FinalStatus wrote with self.log.info
    fs_exc,             \* exception that left FinalStatus.post_process
    fs_delivered,       \* the argument of the latest FinalStatus.aggregated_second
    fs_replaced,        \* whether a delivery replaced a different retained DataPoint
    jx_pc,              \* JUnitXMLReporter: "init", "prepared", "done"
    jx_settings,        \* JUnitXMLReporter.settings
    jx_parameters,      \* JUnitXMLReporter.parameters
    jx_max_urls,        \* JUnitXMLReporter.max_urls
    jx_report_file_path,\* JUnitXMLReporter.report_file_path
    jx_last_second,     \* JUnitXMLReporter.last_second
    jx_log,             \* what JUnitXMLReporter wrote with self.log
    jx_exc,             \* exception that left JUnitXMLReporter.post_process
    jx_root,            \* the tree post_process built (NoneValue if none)
    jx_delivered,       \* the argument of the latest JUnitXMLReporter.aggregated_second
    jx_replaced,        \* whether a delivery replaced a different retained DataPoint
    reporters,          \* engine.reporters
    interpreter,        \* major version of the Python running the module (bzt.six)
    fs_files,           \* file system: path -> content written (existing files)
    fs_dirs,            \* file system: existing directories
    fs_writable         \* file system: whether open(path, 'wb') succeeds

fsvars == <<fs_pc, fs_parameters, fs_last_sec, fs_start_time, fs_end_time, fs_log,
            fs_exc, fs_delivered, fs_replaced>>
jxvars == <<jx_pc, jx_settings, jx_parameters, jx_max_urls, jx_report_file_path,
            jx_last_second, jx_log, jx_exc, jx_root, jx_delivered, jx_replaced>>
envvars == <<reporters, interpreter, fs_files, fs_dirs, fs_writable>>
vars == <<clock, fsvars, jxvars, envvars>>

(***************************************************************************)
(* Bounds of the model.                                                    *)
(***************************************************************************)
MaxTime == 1            \* the clock runs from 0 to MaxTime
MaxErrors == 4          \* error signatures of the overall label: 0..MaxErrors
MaxLabels == 2          \* non-empty labels in one cumulative view
MaxReporters == 2       \* length of engine.reporters
MaxCriteria == 2        \* criteria held by the evaluators of one run

(***************************************************************************)
(* Values.                                                                 *)
(***************************************************************************)
NoneValue == [kind |-> "None"]

IsNone(v) == v = NoneValue

\* A Python str (or a path, a sequence of components) where None may stand instead.
Str(s) == [kind |-> "str", value |-> s]

\* bool(v) of a str or None: None and the empty string are false.
StrTruthy(v) == ~IsNone(v) /\ v.value # ""

\* bool(v) of a path or None.
PathTruthy(v) == ~IsNone(v) /\ v.value # <<>>

Min(a, b) == IF a <= b THEN a ELSE b

\* The sum of the values of a dict of integers.
RECURSIVE SumValues(_)
SumValues(f) ==
    IF DOMAIN f = {} THEN 0
    ELSE LET k == CHOOSE k \in DOMAIN f : TRUE
         IN  f[k] + SumValues([j \in DOMAIN f \ {k} |-> f[j]])

\* Code points of the characters labels are made of.
Ord == ("a" :> 97 @@ "b" :> 98)

\* Python's < on str: the first differing character decides, a proper prefix is smaller.
LabelLess(a, b) ==
    \/ /\ Len(a) < Len(b)
       /\ \A i \in 1..Len(a) : a[i] = b[i]
    \/ \E i \in 1..Min(Len(a), Len(b)) :
          /\ \A j \in 1..(i - 1) : a[j] = b[j]
          /\ Ord[a[i]] < Ord[b[i]]

\* sorted(labels): the labels of the set S in ascending order.
RECURSIVE SortedLabels(_)
SortedLabels(S) ==
    IF S = {} THEN <<>>
    ELSE LET m == CHOOSE m \in S : \A o \in S \ {m} : LabelLess(m, o)
         IN  <<m>> \o SortedLabels(S \ {m})

\* The empty label: the overall aggregate.
Overall == <<>>

\* float(key) of a percentile key, a string of decimal digits (a sequence of digits here).
RECURSIVE KeyFloat(_)
KeyFloat(key) ==
    IF key = <<>> THEN 0 ELSE 10 * KeyFloat(SubSeq(key, 1, Len(key) - 1)) + key[Len(key)]

\* sorted(keys, key=float): the percentile keys of the set S in ascending numeric order.
RECURSIVE SortedKeys(_)
SortedKeys(S) ==
    IF S = {} THEN <<>>
    ELSE LET m == CHOOSE m \in S : \A o \in S \ {m} : KeyFloat(m) <= KeyFloat(o)
         IN  <<m>> \o SortedKeys(S \ {m})

(***************************************************************************)
(* DataPoint and KPISet (bzt.modules.aggregator), as far as reporting.py   *)
(* reads them.  The field names are the values of the KPISet constants.    *)
(***************************************************************************)
\* One error signature: the i-th of a label.
ErrorEntry(i) ==
    [rc   |-> 400 + i,
     msg  |-> "msg" \o ToString(i),
     cnt  |-> IF i % 2 = 1 THEN 1 ELSE 3,
     urls |-> IF i % 2 = 1 THEN ("u1" :> 1) ELSE ("u1" :> 1 @@ "u2" :> 2)]

Errors(n) == [i \in 1..n |-> ErrorEntry(i)]

KPISet(count, fail, avg, perc, errors) ==
    [succ       |-> count - fail,
     throughput |-> count,
     fail       |-> fail,
     avg_rt     |-> avg,
     avg_lt     |-> avg + 1,
     avg_ct     |-> avg + 2,
     perc       |-> perc,
     errors     |-> errors]

DataPoint(cumulative) == [kind |-> "DataPoint", empty |-> FALSE, cumulative |-> cumulative]

\* A DataPoint without any key: a dict that is false in a condition.
EmptyDataPoint == [kind |-> "DataPoint", empty |-> TRUE, cumulative |-> <<>>]

\* bool(data) of Python.
Truthy(data) == ~IsNone(data) /\ ~data.empty

(***************************************************************************)
(* The inputs: the DataPoints the aggregator may deliver.                  *)
(***************************************************************************)
\* The non-empty labels of the runs considered.
LabelUniverse ==
    {<<"a">>, <<"b">>, <<"a", "a">>, <<"a", "b">>, <<"b", "a">>, <<"b", "b">>}

LabelSets == {L \in SUBSET LabelUniverse : Cardinality(L) <= MaxLabels}

RECURSIVE OrdSum(_)
OrdSum(label) == IF label = <<>> THEN 0 ELSE Ord[Head(label)] + OrdSum(Tail(label))

\* The statistics of a non-empty label: 0, 1 or 2 error signatures, as many failures.
LabelKPISet(label) ==
    LET k == OrdSum(label) % 3 IN KPISet(5, k, 1, <<>>, Errors(k))

NoPercentiles == <<>>

\* Percentile keys "9", "10" and "50": "10" < "9" as strings, 9 < 10 as numbers.
SomePercentiles == (<<9>> :> 90 @@ <<1, 0>> :> 100 @@ <<5, 0>> :> 500)

\* The overall label of an empty run: no sample at all.
ZeroKPISet == KPISet(0, 0, 0, NoPercentiles, <<>>)

\* The overall label of a run with n error signatures.
OverallKPISet(n) == KPISet(100 + n, n, 10 + n, SomePercentiles, Errors(n))

Cumulatives(overalls, labelSets) ==
    {(Overall :> o) @@ [l \in L |-> LabelKPISet(l)] : o \in overalls, L \in labelSets}

DataPoints(overalls, labelSets) ==
    {DataPoint(c) : c \in Cumulatives(overalls, labelSets)} \cup {EmptyDataPoint}

(***************************************************************************)
(* dict.get(key, default)                                                  *)
(***************************************************************************)
Get(d, key, default) == IF key \in DOMAIN d THEN d[key] ELSE default

(***************************************************************************)
(* FinalStatus                                                             *)
(***************************************************************************)
\* __report_duration: datetime.fromtimestamp(int(end)) - datetime.fromtimestamp(int(start))
ReportDuration(start, end) == <<[kind |-> "duration", delta |-> end - start]>>

\* "%.2f" of 100 * failures / float(count), in hundredths of a percent.
ErrRate(failures, count) == (2 * 10000 * failures + count) \div (2 * count)

\* __report_samples_count: the division raises on a sample count of 0.
ReportSamplesCount(summary_kpi_set) ==
    IF summary_kpi_set.throughput = 0
    THEN [exc |-> "ZeroDivisionError", lines |-> <<>>]
    ELSE [exc   |-> "none",
          lines |-> <<[kind  |-> "samples",
                       count |-> summary_kpi_set.throughput,
                       rate  |-> ErrRate(summary_kpi_set.fail, summary_kpi_set.throughput)]>>]

\* __report_percentiles: the averages, then the percentiles sorted by float(key).
ReportPercentiles(summary_kpi_set) ==
    LET keys == SortedKeys(DOMAIN summary_kpi_set.perc)
    IN  <<[kind    |-> "averages",
           total   |-> summary_kpi_set.avg_rt,
           latency |-> summary_kpi_set.avg_lt,
           connect |-> summary_kpi_set.avg_ct]>>
        \o [i \in 1..Len(keys) |->
               [kind  |-> "percentile",
                key   |-> KeyFloat(keys[i]),
                value |-> summary_kpi_set.perc[keys[i]]]]

\* __report_failed_labels: the non-empty labels with failed samples, sorted.
ReportFailedLabels(cumulative) ==
    LET sorted_labels == SortedLabels(DOMAIN cumulative)
        failed == SelectSeq(sorted_labels,
                            LAMBDA l : l # Overall /\ cumulative[l].fail # 0)
    IN  [i \in 1..Len(failed) |->
            [kind |-> "failed", count |-> cumulative[failed[i]].fail, label |-> failed[i]]]

\* FinalStatusPostProcess with the duration reported only when there is a DataPoint.
FinalStatusPostProcessDurationInside(parameters, last_sec, start, end) ==
    LET duration == IF Get(parameters, "test-duration", TRUE)
                    THEN ReportDuration(start, end) ELSE <<>>
    IN  IF ~Truthy(last_sec)
        THEN [exc |-> "none", log |-> <<>>]
        ELSE
          LET cumulative == last_sec.cumulative
              summary_kpi == cumulative[Overall]
              samples == IF Get(parameters, "summary", TRUE)
                         THEN ReportSamplesCount(summary_kpi)
                         ELSE [exc |-> "none", lines |-> <<>>]
          IN  IF samples.exc # "none"
              THEN [exc |-> samples.exc, log |-> duration \o samples.lines]
              ELSE [exc |-> "none",
                    log |-> duration \o samples.lines
                            \o (IF Get(parameters, "percentiles", TRUE)
                                THEN ReportPercentiles(summary_kpi) ELSE <<>>)
                            \o (IF Get(parameters, "failed-labels", FALSE)
                                THEN ReportFailedLabels(cumulative) ELSE <<>>)]

\* FinalStatus.post_process: the lines logged and the exception raised, if any.
FinalStatusPostProcess(parameters, last_sec, start, end) ==
    LET duration == IF Get(parameters, "test-duration", TRUE)
                    THEN ReportDuration(start, end) ELSE <<>>
    IN  IF ~Truthy(last_sec)
        THEN [exc |-> "none", log |-> duration]
        ELSE
          LET cumulative == last_sec.cumulative
              summary_kpi == cumulative[Overall]
              samples == IF Get(parameters, "summary", TRUE)
                         THEN ReportSamplesCount(summary_kpi)
                         ELSE [exc |-> "none", lines |-> <<>>]
          IN  IF samples.exc # "none"
              THEN [exc |-> samples.exc, log |-> duration \o samples.lines]
              ELSE [exc |-> "none",
                    log |-> duration \o samples.lines
                            \o (IF Get(parameters, "percentiles", TRUE)
                                THEN ReportPercentiles(summary_kpi) ELSE <<>>)
                            \o (IF Get(parameters, "failed-labels", FALSE)
                                THEN ReportFailedLabels(cumulative) ELSE <<>>)]

\* time.time() moves on.
Tick ==
    /\ clock < MaxTime
    /\ clock' = clock + 1
    /\ UNCHANGED <<fsvars, jxvars, envvars>>

\* FinalStatus.startup
FS_startup ==
    /\ fs_pc = "idle"
    /\ fs_pc' = "running"
    /\ fs_start_time' = clock
    /\ UNCHANGED <<clock, fs_parameters, fs_last_sec, fs_end_time, fs_log, fs_exc,
                   fs_delivered, fs_replaced, jxvars, envvars>>

\* FS_aggregated_second that keeps the first DataPoint instead of the latest.
FS_aggregated_second_KeepFirst(data) ==
    /\ fs_pc = "running"
    /\ fs_last_sec' = (IF IsNone(fs_last_sec) THEN data ELSE fs_last_sec)
    /\ fs_delivered' = data
    /\ fs_replaced' = (fs_replaced \/ (~IsNone(fs_delivered) /\ fs_delivered # data))
    /\ UNCHANGED <<clock, fs_pc, fs_parameters, fs_start_time, fs_end_time, fs_log,
                   fs_exc, jxvars, envvars>>

\* FinalStatus.aggregated_second(data)
FS_aggregated_second(data) ==
    /\ fs_pc = "running"
    /\ fs_last_sec' = data
    /\ fs_delivered' = data
    /\ fs_replaced' = (fs_replaced \/ (~IsNone(fs_delivered) /\ fs_delivered # data))
    /\ UNCHANGED <<clock, fs_pc, fs_parameters, fs_start_time, fs_end_time, fs_log,
                   fs_exc, jxvars, envvars>>

\* FinalStatus.post_process()
FS_post_process ==
    /\ fs_pc = "running"
    /\ LET r == FinalStatusPostProcess(fs_parameters, fs_last_sec, fs_start_time, clock)
       IN  /\ fs_log' = r.log
           /\ fs_exc' = r.exc
    /\ fs_end_time' = clock
    /\ fs_pc' = "done"
    /\ UNCHANGED <<clock, fs_parameters, fs_last_sec, fs_start_time, fs_delivered,
                   fs_replaced, jxvars, envvars>>

(***************************************************************************)
(* JUnitXMLReporter                                                        *)
(***************************************************************************)
\* self.settings.get("max-urls", 20) of __init__
DefaultMaxUrls == 20

\* the ceiling prepare() applies to self.max_urls
MaxUrlsCeiling == 50

\* the report_file_path of __init__
InitialReportFilePath == <<"xunit.xml">>

\* engine.create_artifact(REPORT_FILE_NAME, REPORT_FILE_EXT): a path in the artifacts directory
CreateArtifact(name, ext) == <<"artifacts", name \o ext>>

\* os.path.dirname
Dirname(path) == SubSeq(path, 1, Len(path) - 1)

\* etree.Element(tag, **attributes) of lxml takes str attribute values only.
ElementRaises(attributes) == \E i \in 1..Len(attributes) : IsNone(attributes[i])

\* get_bza_report_info: one (report_url, test_name) pair per BlazeMeterUploader of
\* engine.reporters, and a warning when there is more than one.
GetBzaReportInfo(engine_reporters) ==
    LET bza_reporters == SelectSeq(engine_reporters,
                                   LAMBDA x : x.kind = "BlazeMeterUploader")
        result == [i \in 1..Len(bza_reporters) |->
                     LET bza_reporter == bza_reporters[i]
                     IN  <<IF StrTruthy(bza_reporter.results_url)
                           THEN Str("BlazeMeter report link: "
                                    \o bza_reporter.results_url.value \o "\n")
                           ELSE NoneValue,
                           IF StrTruthy(bza_reporter.test_id)
                           THEN bza_reporter.test
                           ELSE NoneValue>>]
    IN  [result |-> result,
         log    |-> IF Len(result) > 1
                    THEN <<[level |-> "warning",
                            msg   |-> "More then one blazemeter reporter found"]>>
                    ELSE <<>>]

\* count_errors: the sum of the per-URL counts of all error signatures.
RECURSIVE CountErrors(_)
CountErrors(errors) ==
    IF errors = <<>> THEN 0
    ELSE SumValues(Head(errors).urls) + CountErrors(Tail(errors))

\* One signature of get_urls_errors: the err_template line and its url_err_template lines.
UrlsErrorLines(error) ==
    [rc |-> error.rc, msg |-> error.msg, cnt |-> error.cnt, urls |-> error.urls]

\* get_urls_errors: the loop leaves at the first index count with
\* count > self.settings.get("max-urls").  Without the setting the comparison is with
\* None: true in Python 2 (None is smaller than any int), a TypeError in Python 3.
GetUrlsErrors(summary_kpi_set, settings, python) ==
    LET errors == summary_kpi_set.errors
        configured == "max-urls" \in DOMAIN settings
        \* the indexes count = 0, 1, ... the loop writes before it breaks
        written == IF configured
                   THEN {k \in 1..Len(errors) :
                            \A count \in 0..(k - 1) : ~(count > settings["max-urls"])}
                   ELSE {}
    IN  IF ~configured /\ errors # <<>> /\ python = 3
        THEN [exc |-> "TypeError", text |-> <<>>]
        ELSE [exc |-> "none",
              text |-> [i \in 1..Cardinality(written) |-> UrlsErrorLines(errors[i])]]

\* make_summary_report: the testcase "summary_report".
MakeSummaryReport(summary_kpiset, report_urls, settings, python) ==
    LET urls_errors == GetUrlsErrors(summary_kpiset, settings, python)
    IN  [exc |-> urls_errors.exc,
         element |->
            [tag        |-> "testcase",
             classname  |-> Str("bzt"),
             name       |-> "summary_report",
             skipped    |-> TRUE,
             system_out |-> [success     |-> summary_kpiset.succ,
                             throughput  |-> summary_kpiset.throughput,
                             fail        |-> summary_kpiset.fail,
                             errors      |-> CountErrors(summary_kpiset.errors),
                             report_urls |-> report_urls,
                             urls_errors |-> urls_errors.text],
             errors     |-> <<>>]]

\* The "error" children of the testcase of one label.
LabelErrorElements(errors) ==
    [i \in 1..Len(errors) |->
        [tag     |-> "error",
         message |-> errors[i].rc,
         type    |-> errors[i].msg,
         text    |-> [total |-> errors[i].cnt]]]

\* The class name process_sample_labels gives the testcases of the labels.
SampleLabelsClassName(bza_report_info) ==
    IF bza_report_info # <<>> THEN bza_report_info[1][2] ELSE Str("bzt")

\* SampleLabelsKeys without the test that skips the empty label.
SampleLabelsKeysWithOverall(kpiset) == SortedLabels(DOMAIN kpiset)

\* The keys process_sample_labels makes testcases of, in the order of the loop.
SampleLabelsKeys(kpiset) ==
    SelectSeq(SortedLabels(DOMAIN kpiset), LAMBDA key : key # Overall)

\* process_sample_labels
ProcessSampleLabels(last_second, engine_reporters, settings, python) ==
    LET kpiset == last_second.cumulative
        summary_kpiset == kpiset[Overall]
        bza == GetBzaReportInfo(engine_reporters)
        class_name == SampleLabelsClassName(bza.result)
        report_urls == [i \in 1..Len(bza.result) |-> bza.result[i][1]]
        summary == MakeSummaryReport(summary_kpiset, report_urls, settings, python)
        keys == SampleLabelsKeys(kpiset)
        testcases == [i \in 1..Len(keys) |->
                        [tag        |-> "testcase",
                         classname  |-> class_name,
                         name       |-> keys[i],
                         skipped    |-> FALSE,
                         system_out |-> NoneValue,
                         errors     |-> LabelErrorElements(kpiset[keys[i]].errors)]]
    IN  IF summary.exc # "none"
        THEN [exc |-> summary.exc, log |-> bza.log, root |-> NoneValue]
        ELSE IF keys # <<>> /\ ElementRaises(<<class_name>>)
        THEN [exc |-> "TypeError", log |-> bza.log, root |-> NoneValue]
        ELSE [exc  |-> "none",
              log  |-> bza.log,
              root |-> [tag      |-> "testsuite",
                        name     |-> "sample_labels",
                        package  |-> "bzt",
                        children |-> <<summary.element>> \o testcases]]

\* The criteria of all PassFailStatus reporters that have any, in the order held.
RECURSIVE FailCriterias(_)
FailCriterias(engine_reporters) ==
    IF engine_reporters = <<>> THEN <<>>
    ELSE LET x == Head(engine_reporters)
         IN  (IF x.kind = "PassFailStatus" THEN x.criterias ELSE <<>>)
             \o FailCriterias(Tail(engine_reporters))

\* disp_name = tpl % data
DispName(config) ==
    (IF config.label # ""
     THEN config.subject \o " of " \o config.label \o config.condition \o config.threshold
     ELSE config.subject \o config.condition \o config.threshold)
    \o (IF config.timeframe # "" THEN " for " \o config.timeframe ELSE "")

\* CriterionErrorElements with the test of fc_obj.fail left out.
CriterionErrorElementsTriggered(fc_obj) ==
    IF fc_obj.is_triggered
    THEN <<[tag     |-> "error",
            type    |-> "pass/fail criteria triggered",
            message |-> "",
            text    |-> NoneValue]>>
    ELSE <<>>

\* The "error" child of the testcase of one criterion.
CriterionErrorElements(fc_obj) ==
    IF fc_obj.is_triggered /\ fc_obj.fail
    THEN <<[tag     |-> "error",
            type    |-> "pass/fail criteria triggered",
            message |-> "",
            text    |-> NoneValue]>>
    ELSE <<>>

\* The class name process_pass_fail gives every testcase.
PassFailClassName(bza_report_info) ==
    LET test_name == IF bza_report_info # <<>> THEN bza_report_info[1][2] ELSE NoneValue
    IN  IF StrTruthy(test_name) THEN test_name ELSE Str("bzt")

\* process_pass_fail
ProcessPassFail(engine_reporters) ==
    LET fail_criterias == FailCriterias(engine_reporters)
        bza == GetBzaReportInfo(engine_reporters)
        classname == PassFailClassName(bza.result)
    IN  [exc  |-> "none",
         log  |-> bza.log,
         root |-> [tag      |-> "testsuite",
                   name     |-> "bzt_pass_fail",
                   package  |-> "bzt",
                   children |-> [i \in 1..Len(fail_criterias) |->
                       [tag        |-> "testcase",
                        classname  |-> classname,
                        name       |-> DispName(fail_criterias[i].config),
                        skipped    |-> FALSE,
                        system_out |-> NoneValue,
                        errors     |-> CriterionErrorElements(fail_criterias[i])]]]]

\* save_report: what it logs, the exception it re-raises, and the file system it leaves.
SaveReport(report_file_path, root_node, files, dirs, writable) ==
    LET exists == report_file_path \in DOMAIN files
        dirname == Dirname(report_file_path)
        makedirs == ~exists /\ dirname # <<>> /\ dirname \notin dirs
        before == IF exists
                  THEN <<[level |-> "warning", msg |-> "File already exists, will be overwritten"]>>
                  ELSE <<>>
        failed == <<[level |-> "error", msg |-> "Cannot create file"]>>
        writing == <<[level |-> "info", msg |-> "Writing JUnit XML report"]>>
    IN  IF makedirs /\ ~writable
        THEN [exc |-> "OSError", log |-> before \o failed, files |-> files, dirs |-> dirs]
        ELSE IF ~writable
        THEN [exc |-> "IOError", log |-> before \o writing \o failed,
              files |-> files, dirs |-> dirs]
        ELSE [exc   |-> "none",
              log   |-> before \o writing,
              files |-> (report_file_path :> root_node) @@ files,
              dirs  |-> IF makedirs THEN dirs \cup {dirname} ELSE dirs]

\* JUnitPostProcess with the test of self.last_second applied to sample-labels only.
JUnitPostProcessUnguarded(parameters, settings, last_second, path, engine_reporters, python, files, dirs, writable) ==
    LET test_data_source == Get(parameters, "data-source", "sample-labels")
        nothing == [exc |-> "none", log |-> <<>>, root |-> NoneValue,
                    files |-> files, dirs |-> dirs]
        built == IF test_data_source = "sample-labels"
                 THEN ProcessSampleLabels(last_second, engine_reporters, settings, python)
                 ELSE IF test_data_source = "pass-fail"
                 THEN ProcessPassFail(engine_reporters)
                 ELSE [exc |-> "ValueError", log |-> <<>>, root |-> NoneValue]
        saved == SaveReport(path, built.root, files, dirs, writable)
    IN  IF ~Truthy(last_second) /\ test_data_source # "pass-fail" THEN nothing
        ELSE IF built.exc # "none"
        THEN [nothing EXCEPT !.exc = built.exc, !.log = built.log]
        ELSE [exc   |-> saved.exc,
              log   |-> built.log \o saved.log,
              root  |-> built.root,
              files |-> saved.files,
              dirs  |-> saved.dirs]

\* JUnitXMLReporter.post_process: the tree, the log, the exception and the file system.
JUnitPostProcess(parameters, settings, last_second, path, engine_reporters, python, files, dirs, writable) ==
    LET test_data_source == Get(parameters, "data-source", "sample-labels")
        nothing == [exc |-> "none", log |-> <<>>, root |-> NoneValue,
                    files |-> files, dirs |-> dirs]
        built == IF test_data_source = "sample-labels"
                 THEN ProcessSampleLabels(last_second, engine_reporters, settings, python)
                 ELSE IF test_data_source = "pass-fail"
                 THEN ProcessPassFail(engine_reporters)
                 ELSE [exc |-> "ValueError", log |-> <<>>, root |-> NoneValue]
        saved == SaveReport(path, built.root, files, dirs, writable)
    IN  IF ~Truthy(last_second) THEN nothing
        ELSE IF built.exc # "none"
        THEN [nothing EXCEPT !.exc = built.exc, !.log = built.log]
        ELSE [exc   |-> saved.exc,
              log   |-> built.log \o saved.log,
              root  |-> built.root,
              files |-> saved.files,
              dirs  |-> saved.dirs]

\* JUnitXMLReporter.prepare()
JX_prepare ==
    /\ jx_pc = "init"
    /\ jx_pc' = "prepared"
    /\ IF jx_max_urls > MaxUrlsCeiling
       THEN /\ jx_max_urls' = MaxUrlsCeiling
            /\ jx_log' = Append(jx_log, [level |-> "warning",
                                         msg   |-> "Limiting urls count in summary report to 50"])
       ELSE UNCHANGED <<jx_max_urls, jx_log>>
    /\ LET filename == Get(jx_parameters, "filename", NoneValue)
           path == IF PathTruthy(filename) THEN filename.value
                   ELSE CreateArtifact("xunit", ".xml")
       IN  /\ jx_report_file_path' = path
           /\ jx_parameters' = ("filename" :> Str(path)) @@ jx_parameters
    /\ UNCHANGED <<clock, fsvars, jx_settings, jx_last_second, jx_exc, jx_root,
                   jx_delivered, jx_replaced, envvars>>

\* JUnitXMLReporter.aggregated_second(data)
JX_aggregated_second(data) ==
    /\ jx_pc = "prepared"
    /\ jx_last_second' = data
    /\ jx_delivered' = data
    /\ jx_replaced' = (jx_replaced \/ (~IsNone(jx_delivered) /\ jx_delivered # data))
    /\ UNCHANGED <<clock, fsvars, jx_pc, jx_settings, jx_parameters, jx_max_urls,
                   jx_report_file_path, jx_log, jx_exc, jx_root, envvars>>

\* JUnitXMLReporter.post_process()
JX_post_process ==
    /\ jx_pc = "prepared"
    /\ jx_pc' = "done"
    /\ LET r == JUnitPostProcess(jx_parameters, jx_settings, jx_last_second,
                                 jx_report_file_path, reporters, interpreter,
                                 fs_files, fs_dirs, fs_writable)
       IN  /\ jx_exc' = r.exc
           /\ jx_log' = jx_log \o r.log
           /\ jx_root' = r.root
           /\ fs_files' = r.files
           /\ fs_dirs' = r.dirs
    /\ UNCHANGED <<clock, fsvars, jx_settings, jx_parameters, jx_max_urls,
                   jx_report_file_path, jx_last_second, jx_delivered, jx_replaced,
                   reporters, interpreter, fs_writable>>

(***************************************************************************)
(* The inputs: configurations, engine.reporters, file systems.             *)
(***************************************************************************)
\* All dicts with keys among `keys` and values among `values`.
Dicts(keys, values) == UNION {[K -> values] : K \in SUBSET keys}

FinalStatusOptions == {"test-duration", "summary", "percentiles", "failed-labels"}

BlazeMeterUploader(results_url, test_id, test) ==
    [kind |-> "BlazeMeterUploader", results_url |-> results_url, test_id |-> test_id,
     test |-> test]

PassFailStatus(criterias) == [kind |-> "PassFailStatus", criterias |-> criterias]

\* A reporter of engine.reporters that is neither of the two.
OtherReporter == [kind |-> "FinalStatus"]

\* client.results_url, client.test_id and parameters.get("test") of the uploaders.
Uploaders ==
    {BlazeMeterUploader(Str("http://a"), Str("id1"), Str("T1")),
     BlazeMeterUploader(NoneValue, NoneValue, Str("T2")),
     BlazeMeterUploader(Str("http://b"), Str("id2"), NoneValue),
     BlazeMeterUploader(Str("http://c"), Str("id3"), Str("")),
     BlazeMeterUploader(NoneValue, Str("id4"), Str("T2"))}

\* A criterion of a PassFailStatus: its config, is_triggered and fail.
Criterion(label, timeframe, is_triggered, fail) ==
    [config |-> [subject   |-> IF label = "" THEN "avg-rt" ELSE "failures",
                 label     |-> label,
                 condition |-> ">",
                 threshold |-> IF label = "" THEN "500ms" ELSE "1%",
                 timeframe |-> timeframe],
     is_triggered |-> is_triggered,
     fail |-> fail]

Criteria ==
    {Criterion(l, t, g, f) : l \in {"", "checkout"}, t \in {"", "30s"},
                             g \in BOOLEAN, f \in BOOLEAN}

SeqsUpTo(S, n) == UNION {[1..k -> S] : k \in 0..n}

\* engine.reporters with two evaluators that hold the criteria cs, the first k of
\* them in the first one, behind the reporters of head.
PassFailRegistry(head, cs, k) ==
    head \o <<PassFailStatus(SubSeq(cs, 1, k)), OtherReporter,
              PassFailStatus(SubSeq(cs, k + 1, Len(cs)))>>

\* engine.reporters of up to MaxReporters uploaders, evaluators and others.
MixedRegistries ==
    SeqsUpTo(Uploaders \cup {OtherReporter,
                             PassFailStatus(<<Criterion("", "", TRUE, TRUE),
                                              Criterion("checkout", "30s", FALSE, TRUE)>>)},
             MaxReporters)

\* A file system: the files and directories there are, and whether it can be written.
FileSystem(files, dirs, writable) == [files |-> files, dirs |-> dirs, writable |-> writable]

\* The artifacts directory of the engine exists; nothing else does.
FreshFileSystem == FileSystem(<<>>, {<<"artifacts">>}, TRUE)

FileSystems ==
    {FileSystem(files, dirs, writable) :
        files \in {<<>>,
                   (<<"artifacts", "xunit.xml">> :> Str("old")),
                   (<<"out", "report.xml">> :> Str("old"))},
        dirs \in {{<<"artifacts">>}, {<<"artifacts">>, <<"out">>}},
        writable \in BOOLEAN}

\* The file systems in which every file is in a directory there is.
ConsistentFileSystems ==
    {f \in FileSystems : \A path \in DOMAIN f.files : Dirname(path) \in f.dirs}

(***************************************************************************)
(* The state after construction.                                           *)
(***************************************************************************)
\* FinalStatus.__init__
FS_init(parameterSets) ==
    /\ clock = 0
    /\ fs_pc = "idle"
    /\ fs_parameters \in parameterSets
    /\ fs_last_sec = NoneValue
    /\ fs_start_time = 0
    /\ fs_end_time = NoneValue
    /\ fs_log = <<>>
    /\ fs_exc = "none"
    /\ fs_delivered = NoneValue
    /\ fs_replaced = FALSE

\* JUnitXMLReporter.__init__
JX_init(settingSets, parameterSets) ==
    /\ jx_pc = "init"
    /\ jx_settings \in settingSets
    /\ jx_parameters \in parameterSets
    /\ jx_max_urls = Get(jx_settings, "max-urls", DefaultMaxUrls)
    /\ jx_report_file_path = InitialReportFilePath
    /\ jx_last_second = NoneValue
    /\ jx_log = <<>>
    /\ jx_exc = "none"
    /\ jx_root = NoneValue
    /\ jx_delivered = NoneValue
    /\ jx_replaced = FALSE

\* The engine and the machine the reporters run on.
Env_init(fileSystems) ==
    /\ interpreter \in {2, 3}
    /\ \E f \in fileSystems :
          /\ fs_files = f.files
          /\ fs_dirs = f.dirs
          /\ fs_writable = f.writable

(***************************************************************************)
(* Specifications.                                                         *)
(***************************************************************************)
NoSetting == <<>>

MaxUrls(m) == ("max-urls" :> m)

DataSource(name) == ("data-source" :> name)

\* --- FinalStatus alone, every combination of its options ---
SummaryDataPoints == DataPoints({ZeroKPISet, OverallKPISet(1)}, LabelSets)

InitSummary ==
    /\ FS_init(Dicts(FinalStatusOptions, BOOLEAN))
    /\ JX_init({NoSetting}, {<<>>})
    /\ reporters = <<>>
    /\ Env_init({FreshFileSystem})
    /\ interpreter = 3

NextSummary ==
    \/ Tick
    \/ FS_startup
    \/ \E data \in SummaryDataPoints : FS_aggregated_second(data)
    \/ FS_post_process

SpecSummary == InitSummary /\ [][NextSummary]_vars

\* --- JUnitXMLReporter: data sources, max-urls settings, error signatures, file systems ---
JUnitDataPoints ==
    DataPoints({ZeroKPISet}
               \cup {OverallKPISet(n) : n \in 0..MaxErrors}
               \cup {OverallKPISet(MaxUrlsCeiling + 2)},
               {{}, {<<"a">>}})

InitJUnit ==
    /\ FS_init({<<>>})
    /\ JX_init({NoSetting, MaxUrls(2), MaxUrls(MaxUrlsCeiling), MaxUrls(2 * MaxUrlsCeiling)},
               {d @@ f : d \in {<<>>, DataSource("sample-labels"), DataSource("pass-fail"),
                                DataSource("loadosophia")},
                         f \in {<<>>, ("filename" :> Str(<<"out", "report.xml">>))}})
    /\ reporters \in {<<>>,
                      <<BlazeMeterUploader(Str("http://a"), Str("id1"), Str("T1")),
                        PassFailStatus(<<Criterion("", "", TRUE, TRUE)>>),
                        BlazeMeterUploader(NoneValue, Str("id4"), Str("T2"))>>}
    /\ Env_init(ConsistentFileSystems)

NextJUnit ==
    \/ JX_prepare
    \/ \E data \in JUnitDataPoints : JX_aggregated_second(data)
    \/ JX_post_process

SpecJUnit == InitJUnit /\ [][NextJUnit]_vars

\* --- JUnitXMLReporter: label sets and uploaders ---
LabelsDataPoints == DataPoints({OverallKPISet(1)}, LabelSets)

InitLabels ==
    /\ FS_init({<<>>})
    /\ JX_init({MaxUrls(2)}, {<<>>, DataSource("pass-fail")})
    /\ reporters \in MixedRegistries
    /\ Env_init({FreshFileSystem})

NextLabels ==
    \/ JX_prepare
    \/ \E data \in LabelsDataPoints : JX_aggregated_second(data)
    \/ JX_post_process

SpecLabels == InitLabels /\ [][NextLabels]_vars

\* --- JUnitXMLReporter: pass/fail criteria ---
PassFailDataPoints == DataPoints({OverallKPISet(0)}, {{}})

InitPassFail ==
    /\ FS_init({<<>>})
    /\ JX_init({NoSetting}, {DataSource("pass-fail")})
    /\ \E head \in {<<>>, <<BlazeMeterUploader(Str("http://a"), Str("id1"), Str("T1"))>>},
          cs \in SeqsUpTo(Criteria, MaxCriteria) :
          \E k \in 0..Len(cs) : reporters = PassFailRegistry(head, cs, k)
    /\ Env_init({FreshFileSystem})
    /\ interpreter = 3

NextPassFail ==
    \/ JX_prepare
    \/ \E data \in PassFailDataPoints : JX_aggregated_second(data)
    \/ JX_post_process

SpecPassFail == InitPassFail /\ [][NextPassFail]_vars

\* --- both reporters in one run ---
RunDataPoints ==
    DataPoints({ZeroKPISet, OverallKPISet(0), OverallKPISet(2)},
               {{}, {<<"b">>}, {<<"a">>, <<"b", "b">>}})

Init ==
    /\ FS_init({<<>>, ("failed-labels" :> TRUE), ("summary" :> FALSE)})
    /\ JX_init({MaxUrls(2)}, {<<>>, DataSource("pass-fail")})
    /\ reporters = <<BlazeMeterUploader(Str("http://a"), Str("id1"), Str("T1")),
                     PassFailStatus(<<Criterion("", "", TRUE, TRUE)>>)>>
    /\ Env_init({FreshFileSystem})
    /\ interpreter = 3

Next ==
    \/ Tick
    \/ FS_startup
    \/ \E data \in RunDataPoints : FS_aggregated_second(data)
    \/ FS_post_process
    \/ JX_prepare
    \/ \E data \in RunDataPoints : JX_aggregated_second(data)
    \/ JX_post_process

Spec == Init /\ [][Next]_vars

(***************************************************************************)
(* Properties.                                                             *)
(***************************************************************************)
FsDone == fs_pc = "done"

JxDone == jx_pc = "done"

JxDataSource == Get(jx_parameters, "data-source", "sample-labels")

\* post_process built a tree in sample-labels mode / in pass-fail mode.
BuiltSampleLabels == JxDone /\ ~IsNone(jx_root) /\ jx_root.name = "sample_labels"

BuiltPassFail == JxDone /\ ~IsNone(jx_root) /\ jx_root.name = "bzt_pass_fail"

\* The lines of a kind in the log of FinalStatus.
FsLines(kind) == SelectSeq(fs_log, LAMBDA line : line.kind = kind)

\* No file holds a tree: every file there is was there before the run.
NoReportFile == \A path \in DOMAIN fs_files : fs_files[path] = Str("old")

JxLogged(msg) == \E i \in 1..Len(jx_log) : jx_log[i].msg = msg

\* C1: FinalStatus.post_process with a retained DataPoint whose overall label has a
\* sample count of 0, and 'summary' enabled, does not raise, logs a failure rate of 0%,
\* and goes on to the percentiles.
C1_ZeroSamplesReported ==
    (/\ FsDone
     /\ Truthy(fs_last_sec)
     /\ fs_last_sec.cumulative[Overall].throughput = 0
     /\ Get(fs_parameters, "summary", TRUE))
    => /\ fs_exc = "none"
       /\ Len(FsLines("samples")) = 1
       /\ FsLines("samples")[1].rate = 0
       /\ Get(fs_parameters, "percentiles", TRUE) => Len(FsLines("averages")) = 1

\* C2: after prepare, the cap the summary entry's error breakdown applies is
\* min(configured max-urls, 50), and a warning was logged when the configured value
\* was above 50.
C2_CapClampedToCeiling ==
    (BuiltSampleLabels /\ "max-urls" \in DOMAIN jx_settings)
    => LET n == Len(jx_last_second.cumulative[Overall].errors)
           cap == Min(jx_settings["max-urls"], MaxUrlsCeiling)
       IN  /\ Len(jx_root.children[1].system_out.urls_errors) = Min(n, cap)
           /\ jx_settings["max-urls"] > MaxUrlsCeiling
                  => JxLogged("Limiting urls count in summary report to 50")

\* C3: in sample-labels mode the summary entry lists exactly the first min(n, m) of
\* the n error signatures of the overall label, m being max-urls (20 by default),
\* each with its per-URL counts, and never more than m.
C3_BreakdownCappedAtMaxUrls ==
    (JxDone /\ Truthy(jx_last_second) /\ JxDataSource = "sample-labels")
    => LET errors == jx_last_second.cumulative[Overall].errors
           m == Get(jx_settings, "max-urls", DefaultMaxUrls)
       IN  /\ jx_exc # "TypeError"
           /\ ~IsNone(jx_root) =>
                 jx_root.children[1].system_out.urls_errors
                    = [i \in 1..Min(Len(errors), m) |-> UrlsErrorLines(errors[i])]

\* C4: post_process with a data-source other than "sample-labels" and "pass-fail"
\* raises the configuration error and writes no report file, whatever was delivered
\* before, nothing included.
C4_UnsupportedDataSourceRaises ==
    (JxDone /\ JxDataSource \notin {"sample-labels", "pass-fail"})
    => /\ jx_exc = "ValueError"
       /\ IsNone(jx_root)
       /\ NoReportFile

\* The class name C5 expects: the test name of the first pair if it has one, else "bzt".
C5_ExpectedClassName ==
    LET info == GetBzaReportInfo(reporters).result
    IN  IF info # <<>> /\ StrTruthy(info[1][2]) THEN info[1][2] ELSE Str("bzt")

\* C5: in both modes the class name of every per-label / per-criterion entry is the
\* test name of the first (URL, test-name) pair when it has one and "bzt" otherwise;
\* building the report never fails for want of it; several uploaders are warned of.
C5_ClassNameDefined ==
    (JxDone /\ Truthy(jx_last_second))
    => /\ jx_exc = "none"
       /\ ~IsNone(jx_root)
       /\ \A i \in 1..Len(jx_root.children) :
             ~jx_root.children[i].skipped
                => jx_root.children[i].classname = C5_ExpectedClassName
       /\ Len(GetBzaReportInfo(reporters).result) > 1
             => JxLogged("More then one blazemeter reporter found")

\* The labels of LabelUniverse in ascending lexicographic order:
\* "a" < "aa" < "ab" < "b" < "ba" < "bb".
LexRank ==
    (<<"a">> :> 1 @@ <<"a", "a">> :> 2 @@ <<"a", "b">> :> 3
     @@ <<"b">> :> 4 @@ <<"b", "a">> :> 5 @@ <<"b", "b">> :> 6)

\* C6: in sample-labels mode the entries of the tree are one summary entry, marked
\* skipped, in first place, then one entry per non-empty label of the cumulative view
\* in ascending lexicographic order, each with one failure marker per error signature
\* of its label; the empty label has no entry of its own.
C6_SampleLabelsEntries ==
    BuiltSampleLabels
    => LET cumulative == jx_last_second.cumulative
           labels == DOMAIN cumulative \ {Overall}
           entries == jx_root.children
       IN  /\ Len(entries) = 1 + Cardinality(labels)
           /\ entries[1].skipped
           /\ entries[1].name = "summary_report"
           /\ \A i \in 2..Len(entries) :
                 /\ ~entries[i].skipped
                 /\ entries[i].name \in labels
                 /\ Len(entries[i].errors) = Len(cumulative[entries[i].name].errors)
                 /\ \A k \in 1..Len(entries[i].errors) :
                       /\ entries[i].errors[k].message = cumulative[entries[i].name].errors[k].rc
                       /\ entries[i].errors[k].type = cumulative[entries[i].name].errors[k].msg
           /\ \A i, j \in 2..Len(entries) :
                 i < j => LexRank[entries[i].name] < LexRank[entries[j].name]

\* A tree with the entries of "ab" (no error) and "b" (two signatures), in that order.
C6_Witness ==
    /\ BuiltSampleLabels
    /\ Len(jx_root.children) = 3
    /\ jx_root.children[2].name = <<"a", "b">>
    /\ jx_root.children[2].errors = <<>>
    /\ jx_root.children[3].name = <<"b">>
    /\ Len(jx_root.children[3].errors) = 2

\* The two evaluators of engine.reporters, and their criteria in registration order.
C7_Evaluators == SelectSeq(reporters, LAMBDA x : x.kind = "PassFailStatus")

C7_Criteria == C7_Evaluators[1].criterias \o C7_Evaluators[2].criterias

\* The display name of a criterion of Criteria.
C7_Name(criterion) ==
    LET labelled == criterion.config.label = "checkout"
        timed == criterion.config.timeframe = "30s"
    IN  IF labelled
        THEN IF timed THEN "failures of checkout>1% for 30s" ELSE "failures of checkout>1%"
        ELSE IF timed THEN "avg-rt>500ms for 30s" ELSE "avg-rt>500ms"

\* C7: in pass-fail mode the entries are the criteria of the evaluators, in
\* registration order then in each evaluator's order, none skipped; each is named
\* "<subject> of <label><condition><threshold>" or "<subject><condition><threshold>",
\* " for <timeframe>" appended iff there is a timeframe, and has a failure marker of
\* type "pass/fail criteria triggered" iff the criterion is triggered and fails.
C7_PassFailEntries ==
    BuiltPassFail
    => LET entries == jx_root.children
       IN  /\ Len(entries) = Len(C7_Criteria)
           /\ \A i \in 1..Len(entries) :
                 /\ entries[i].name = C7_Name(C7_Criteria[i])
                 /\ ~entries[i].skipped
                 /\ Len(entries[i].errors)
                       = (IF C7_Criteria[i].is_triggered /\ C7_Criteria[i].fail THEN 1 ELSE 0)
                 /\ \A k \in 1..Len(entries[i].errors) :
                       /\ entries[i].errors[k].type = "pass/fail criteria triggered"
                       /\ entries[i].errors[k].message = ""

\* The tree of two evaluators with one criterion each: the unlabelled one triggered
\* and failing, the labelled one with a timeframe and not triggered.
C7_Witness ==
    /\ BuiltPassFail
    /\ Len(jx_root.children) = 2
    /\ Len(C7_Evaluators[1].criterias) = 1
    /\ jx_root.children[1].name = "avg-rt>500ms"
    /\ Len(jx_root.children[1].errors) = 1
    /\ jx_root.children[2].name = "failures of checkout>1% for 30s"
    /\ jx_root.children[2].errors = <<>>

\* C8: both reporters retain exactly the DataPoint delivered last, and what
\* post_process renders comes from it: the counts, averages, percentiles and failed
\* labels FinalStatus logs, and the summary and the labels of the tree.
C8_OnlyLatestSnapshot ==
    /\ fs_last_sec = fs_delivered
    /\ jx_last_second = jx_delivered
    /\ FsDone =>
          IF ~Truthy(fs_delivered)
          THEN \A i \in 1..Len(fs_log) : fs_log[i].kind = "duration"
          ELSE LET cumulative == fs_delivered.cumulative
                   overall == cumulative[Overall]
               IN  \A i \in 1..Len(fs_log) :
                      LET line == fs_log[i]
                      IN  /\ line.kind = "samples" =>
                                /\ line.count = overall.throughput
                                /\ 2 * (line.rate * overall.throughput - 10000 * overall.fail)
                                      <= overall.throughput
                                /\ 2 * (10000 * overall.fail - line.rate * overall.throughput)
                                      <= overall.throughput
                          /\ line.kind = "averages" =>
                                /\ line.total = overall.avg_rt
                                /\ line.latency = overall.avg_lt
                                /\ line.connect = overall.avg_ct
                          /\ line.kind = "percentile" =>
                                \E key \in DOMAIN overall.perc :
                                   /\ KeyFloat(key) = line.key
                                   /\ overall.perc[key] = line.value
                          /\ line.kind = "failed" =>
                                /\ line.label \in DOMAIN cumulative
                                /\ line.count = cumulative[line.label].fail
    /\ JxDone =>
          IF ~Truthy(jx_delivered)
          THEN IsNone(jx_root)
          ELSE BuiltSampleLabels =>
                  LET cumulative == jx_delivered.cumulative
                      overall == cumulative[Overall]
                      entries == jx_root.children
                  IN  /\ entries[1].system_out.throughput = overall.throughput
                      /\ entries[1].system_out.success = overall.succ
                      /\ entries[1].system_out.fail = overall.fail
                      /\ {entries[i].name : i \in 2..Len(entries)}
                            = DOMAIN cumulative \ {Overall}

\* Both reporters had a DataPoint replaced by a different one, and both rendered
\* statistics at the end.
C8_Witness ==
    /\ fs_replaced
    /\ jx_replaced
    /\ FsDone
    /\ Len(FsLines("samples")) = 1
    /\ Len(FsLines("failed")) = 2
    /\ BuiltSampleLabels
    /\ Len(jx_root.children) = 3

\* C9: without any delivery FinalStatus.post_process does not raise and logs no
\* statistics whatever its options are: only the duration line, iff 'test-duration'
\* is enabled.
C9_NoSnapshotOnlyDuration ==
    (FsDone /\ IsNone(fs_delivered))
    => /\ fs_exc = "none"
       /\ Len(fs_log) = (IF Get(fs_parameters, "test-duration", TRUE) THEN 1 ELSE 0)
       /\ \A i \in 1..Len(fs_log) : fs_log[i].kind = "duration"

\* No delivery, every statistics section enabled: post_process logged the duration only.
C9_Witness ==
    /\ FsDone
    /\ IsNone(fs_delivered)
    /\ "summary" \in DOMAIN fs_parameters /\ fs_parameters["summary"]
    /\ "percentiles" \in DOMAIN fs_parameters /\ fs_parameters["percentiles"]
    /\ "failed-labels" \in DOMAIN fs_parameters /\ fs_parameters["failed-labels"]
    /\ "test-duration" \notin DOMAIN fs_parameters
    /\ Len(fs_log) = 1
    /\ clock = 1

\* C10: with no retained DataPoint (none delivered, or an empty one last)
\* JUnitXMLReporter.post_process builds no tree, asks no collaborator, writes no file
\* and raises nothing, whatever the data-source is; a report file is written only
\* after a non-empty DataPoint was delivered.
C10_NoSnapshotNoReport ==
    /\ (JxDone /\ ~Truthy(jx_delivered))
       => /\ IsNone(jx_root)
          /\ jx_exc = "none"
          /\ NoReportFile
          /\ ~JxLogged("More then one blazemeter reporter found")
          /\ ~JxLogged("Writing JUnit XML report")
          /\ ~JxLogged("Cannot create file")
    /\ ~NoReportFile => (JxDone /\ Truthy(jx_delivered))

\* post_process in pass-fail mode after an empty DataPoint, with an evaluator that
\* holds a criterion and two uploaders: nothing was built.
C10_Witness ==
    /\ JxDone
    /\ jx_delivered = EmptyDataPoint
    /\ JxDataSource = "pass-fail"
    /\ FailCriterias(reporters) # <<>>
    /\ Len(GetBzaReportInfo(reporters).result) = 2
    /\ IsNone(jx_root)
====
